---- MODULE Spec2Model ----
(***************************************************************************)
(* Redis-stream to output-service connector: the consumer group of the     *)
(* stream (RedisService), the two output services (EventHubsService,       *)
(* LocalEventHubService) and the StreamConnector that ties them together   *)
(* with its processing loop and its pending-message recovery timer.        *)
(*                                                                         *)
(* A stream record is known by its id, its position in the stream (ids are *)
(* assigned in increasing order by XADD); the only thing of its payload    *)
(* the code ever depends on is its encoded size, which decides whether     *)
(* EventDataBatch.tryAdd accepts it.  Durations are counted in units of    *)
(* one clock tick.                                                         *)
(***************************************************************************)
EXTENDS Integers, Sequences, FiniteSets, TLC

VARIABLES
    stream,          \* the stream: stream[id] is the encoded size of record id
    groupExists,     \* whether the consumer group has been created
    lastDeliveredId, \* the group's last-delivered id (what '>' reads after)
    pel,             \* the group's pending entries: id -> [consumer, idle, deliveries]
    isRunning,       \* StreamConnector.isRunning, per connector instance
    pc,              \* where each instance's processing loop stands
    messages,        \* the records fetched in the current iteration
    sendResult,      \* what the iteration's sendBatch call did
    ackIds,          \* messageIdsToAck of the current iteration
    lastIter,        \* how the instance's last finished iteration ended
    sinkType,        \* the output adapter each instance was built with
    timer,           \* the recovery timer: off, armed, or between XPENDING and XCLAIM
    claimIds,        \* messageIdsToClaim of the claim call in flight
    eligible,        \* the entries idle long enough when the claim call in flight began
    claimedCount,    \* what the instance's last claim call returned
    claimOutcome,    \* how it ended: ok, or caught (an error inside it)
    failures,        \* injected transport failures so far
    crashes,         \* process crashes so far
    stopPc,          \* where each stop() call made on an instance stands
    graceLeft,       \* what is left of the grace wait of the instance's stop()
    sourceDisconnects, \* redisService.disconnect() calls made by the instance
    sinkDisconnects  \* outputService.disconnect() calls made by the instance

stopVars == <<stopPc, graceLeft, sourceDisconnects, sinkDisconnects>>

vars == <<stream, groupExists, lastDeliveredId, pel, isRunning, pc, messages,
          sendResult, ackIds, lastIter, sinkType, timer, claimIds,
          eligible, claimedCount, claimOutcome, failures, crashes, stopPc,
          graceLeft, sourceDisconnects, sinkDisconnects>>

----------------------------------------------------------------------------
(* Bounds of the model and constants of the program *)

Consumers == {"c1", "c2"}
AdapterTypes == {"EVENT_HUBS", "LOCAL_FILE"}

MaxRecords == 2
MaxEvents == 4
MaxFailures == 1
MaxCrashes == 1
MaxDeliveries == 2
ScanExtra == 2
MaxBatchBytes == 2
batchSize == 2
pendingMessageMinIdleMs == 1
XPendingCount == 100
MaxStopCalls == 2
pollTimeoutMs == 1
shutdownGracePeriodMs == 1

StopCalls == 1..MaxStopCalls

MaxIdle == pendingMessageMinIdleMs
EventSizes == 1..(MaxBatchBytes + 1)
RecordSizes == {1, MaxBatchBytes + 1}

----------------------------------------------------------------------------
(* Helpers *)

Range(s) == {s[i] : i \in DOMAIN s}

Min(a, b) == IF a <= b THEN a ELSE b

RECURSIVE Flatten(_)
Flatten(ss) == IF ss = <<>> THEN <<>> ELSE Head(ss) \o Flatten(Tail(ss))

RECURSIVE SetToSeq(_)
\* the elements of a set of ids in increasing order
SetToSeq(S) ==
    IF S = {} THEN <<>>
    ELSE LET m == CHOOSE x \in S : \A y \in S : x <= y
         IN <<m>> \o SetToSeq(S \ {m})

NoResult == [raised |-> FALSE, count |-> 0, attempts |-> 0, batches |-> <<>>,
             delivered |-> <<>>]

----------------------------------------------------------------------------
(* EventHubsService: events are record ids; a batch is the sequence of the *)
(* ids it holds.                                                           *)

EventSize(event) == stream[event]

RECURSIVE BatchBytes(_)
BatchBytes(batch) ==
    IF batch = <<>> THEN 0 ELSE EventSize(Head(batch)) + BatchBytes(Tail(batch))

\* EventDataBatch.tryAdd: the event fits when the batch stays within its
\* maximum size; an empty batch refuses only an event larger than that.
TryAdd(batch, event) == BatchBytes(batch) + EventSize(event) <= MaxBatchBytes

\* the locals of sendBatch before its for loop, after the first createBatch;
\* tryAdds lists the tryAdd calls made so far (the event offered, and
\* whether the batch it was offered to was empty), createBatchCalls counts
\* the producer.createBatch calls
EmptyBuild == [batches |-> <<>>, currentBatch |-> <<>>, addedCount |-> 0,
               failedEvents |-> <<>>, tryAdds |-> <<>>,
               createBatchCalls |-> 1]

\* the tryAdd call that offers event to batch
Offer(batch, event) == [event |-> event, empty |-> Len(batch) = 0]

\* one event as the single-batch sendBatch took it: an event the current
\* batch refuses is skipped, no further batch is opened
AddEventDropOnFull(b, event) ==
    IF TryAdd(b.currentBatch, event)
    THEN [b EXCEPT !.currentBatch = Append(@, event), !.addedCount = @ + 1]
    ELSE [b EXCEPT !.failedEvents = Append(@, event)]

\* one event as a loop without the continue of the oversized branch took
\* it: the skipped event is counted as added all the same
AddEventCountSkipped(b, event) ==
    IF TryAdd(b.currentBatch, event)
    THEN [b EXCEPT !.currentBatch = Append(@, event), !.addedCount = @ + 1]
    ELSE LET next == IF Len(b.currentBatch) > 0
                     THEN [b EXCEPT !.batches = Append(@, b.currentBatch),
                                    !.currentBatch = <<>>]
                     ELSE b
         IN  IF TryAdd(next.currentBatch, event)
             THEN [next EXCEPT !.currentBatch = Append(@, event),
                               !.addedCount = @ + 1]
             ELSE [next EXCEPT !.failedEvents = Append(@, event),
                               !.addedCount = @ + 1]

\* the body of the for loop of sendBatch, for one event: a refused event
\* closes a non-empty current batch and is offered once to the fresh one
AddEvent(b, event) ==
    LET first == [b EXCEPT !.tryAdds = Append(@, Offer(b.currentBatch, event))]
    IN  IF TryAdd(b.currentBatch, event)
        THEN [first EXCEPT !.currentBatch = Append(@, event),
                           !.addedCount = @ + 1]
        ELSE LET next == IF Len(b.currentBatch) > 0
                         THEN [first EXCEPT
                                  !.batches = Append(@, b.currentBatch),
                                  !.currentBatch = <<>>,
                                  !.createBatchCalls = @ + 1]
                         ELSE first
                 second == [next EXCEPT
                               !.tryAdds = Append(@, Offer(next.currentBatch,
                                                           event))]
             IN  IF TryAdd(next.currentBatch, event)
                 THEN [second EXCEPT !.currentBatch = Append(@, event),
                                     !.addedCount = @ + 1]
                 ELSE [second EXCEPT !.failedEvents = Append(@, event)]

RECURSIVE AddEvents(_, _)
AddEvents(b, events) ==
    IF events = <<>> THEN b ELSE AddEvents(AddEvent(b, Head(events)), Tail(events))

\* the queue when the trailing batch is pushed without looking at its count
BuildBatchesPushTrailing(events) ==
    LET b == AddEvents(EmptyBuild, events)
    IN  [b EXCEPT !.batches = Append(@, b.currentBatch)]

\* the batches queued for sending: the for loop, then the trailing batch
BuildBatches(events) ==
    LET b == AddEvents(EmptyBuild, events)
    IN  IF Len(b.currentBatch) > 0
        THEN [b EXCEPT !.batches = Append(@, b.currentBatch)]
        ELSE b

RECURSIVE SendBatchesLogAndContinue(_, _, _, _)
\* a sending loop whose catch logs the failed batch and does not re-throw
SendBatchesLogAndContinue(batches, i, failAt, sent) ==
    IF i > Len(batches)
    THEN [raised |-> FALSE, sent |-> sent,
          attempts |-> Len(batches)]
    ELSE SendBatchesLogAndContinue(batches, i + 1, failAt,
            IF i = failAt THEN sent ELSE Append(sent, batches[i]))

RECURSIVE SendBatches(_, _, _, _)
\* the sending loop of sendBatch from batch i on, when producer.sendBatch
\* fails on batch failAt (0: on none): the catch re-throws, which ends the
\* loop and the call; sent are the batches transmitted so far
SendBatches(batches, i, failAt, sent) ==
    IF i > Len(batches)
    THEN [raised |-> FALSE, sent |-> sent, attempts |-> i - 1]
    ELSE IF i = failAt
         THEN [raised |-> TRUE, sent |-> sent, attempts |-> i]
         ELSE SendBatches(batches, i + 1, failAt, Append(sent, batches[i]))

\* EventHubsService.sendBatch when producer.sendBatch fails on batch failAt
\* (0: on none); attempts counts the producer.sendBatch calls made
EventHubsSendBatch(events, failAt) ==
    IF Len(events) = 0 THEN NoResult
    ELSE LET b == BuildBatches(events)
             r == SendBatches(b.batches, 1, failAt, <<>>)
         IN  [raised |-> r.raised, count |-> b.addedCount,
              attempts |-> r.attempts, batches |-> r.sent,
              delivered |-> Flatten(r.sent)]

EventHubsOutcomes(events, mayFail) ==
    {EventHubsSendBatch(events, failAt) :
        failAt \in 0..(IF mayFail THEN Len(BuildBatches(events).batches) ELSE 0)}

----------------------------------------------------------------------------
(* LocalEventHubService *)

\* sendBatch with the writes not caught one by one: Promise.all rejects as
\* soon as one write fails
LocalFileRejectOnError(events, written) ==
    IF Len(events) = 0 THEN NoResult
    ELSE [raised |-> written # 1..Len(events), count |-> Cardinality(written),
          attempts |-> Len(events), batches |-> <<>>,
          delivered |-> [k \in 1..Cardinality(written) |->
                            events[SetToSeq(written)[k]]]]

\* LocalEventHubService.sendBatch when exactly the writes at the positions
\* in written succeed: one write per event, the failed ones resolve to null;
\* attempts counts the fs.writeFile calls made
LocalFileSendBatch(events, written) ==
    IF Len(events) = 0 THEN NoResult
    ELSE [raised |-> FALSE, count |-> Cardinality(written),
          attempts |-> Len(events), batches |-> <<>>,
          delivered |-> [k \in 1..Cardinality(written) |->
                            events[SetToSeq(written)[k]]]]

LocalFileOutcomes(events, mayFail) ==
    {LocalFileSendBatch(events, written) :
        written \in IF mayFail THEN SUBSET (1..Len(events))
                    ELSE {1..Len(events)}}

\* what outputService.sendBatch(events) can do, by adapter type
SendBatchOutcomes(type, events, mayFail) ==
    IF type = "EVENT_HUBS" THEN EventHubsOutcomes(events, mayFail)
    ELSE LocalFileOutcomes(events, mayFail)

Failed(type, events, res) ==
    res.raised \/ (type = "LOCAL_FILE" /\ res.count < Len(events))

----------------------------------------------------------------------------
(* The consumer group, as the Redis commands RedisService issues act on it *)

\* the consumer group of the stream as the commands see it
Group == [exists |-> groupExists, lastDeliveredId |-> lastDeliveredId,
          pel |-> pel]

\* XGROUP CREATE key group $ MKSTREAM: refused with BUSYGROUP when the group
\* exists; otherwise the group starts after the last record of the stream,
\* with nothing pending
XGroupCreate(g) ==
    IF g.exists THEN [error |-> "BUSYGROUP", group |-> g]
    ELSE [error |-> "none",
          group |-> [exists |-> TRUE, lastDeliveredId |-> Len(stream),
                     pel |-> << >>]]

\* XGROUP CREATE failing for another reason (the connection, the server)
XGroupCreateFails(g) == [error |-> "ERR", group |-> g]

\* initializeGroup with a catch that re-throws whatever XGROUP CREATE raised
InitializeGroupStrict(reply) ==
    [raised |-> reply.error # "none", group |-> reply.group]

\* initializeGroup with a catch that logs and re-throws nothing
InitializeGroupSwallowAll(reply) ==
    [raised |-> FALSE, group |-> reply.group]

\* initializeGroup: the catch ignores BUSYGROUP and re-throws anything else
InitializeGroup(reply) ==
    [raised |-> reply.error \notin {"none", "BUSYGROUP"}, group |-> reply.group]

\* a read that ignores the group's cursor (XREAD from the start of the
\* stream): every reader gets the oldest records again
NewIdsFromStart(count) ==
    [k \in 1..Min(count, Len(stream)) |-> k]

\* XREADGROUP ... COUNT count ... STREAMS key '>': the records never yet
\* delivered to any consumer of the group, oldest first, at most count.
NewIds(count) ==
    [k \in 1..Min(count, Len(stream) - lastDeliveredId) |-> lastDeliveredId + k]

\* the pending entries XREADGROUP creates for the records it delivers
Deliver(p, ids, consumer) ==
    [id \in DOMAIN p \cup Range(ids) |->
        IF id \in Range(ids)
        THEN [consumer |-> consumer, idle |-> 0, deliveries |-> 1]
        ELSE p[id]]

\* XPENDING key group - + count: the first count pending entries by id
XPending(p, count) ==
    {id \in DOMAIN p : Cardinality({o \in DOMAIN p : o < id}) < count}

\* the filter of claimPendingMessages over the XPENDING reply
IdsToClaim(pendingInfo, minIdleTimeMs) ==
    {id \in pendingInfo : pel[id].idle >= minIdleTimeMs}

\* the entries XCLAIM key group consumer minIdle ids... reassigns: those
\* still pending whose idle time is at least minIdle at the time of the call
Claimable(p, minIdle, ids) ==
    {id \in ids \cap DOMAIN p : p[id].idle >= minIdle}

\* XCLAIM as it acts when given no minimum idle time (0)
XClaimNoMinIdle(p, consumer, minIdle, ids) ==
    [id \in DOMAIN p |->
        IF id \in ids
        THEN [consumer |-> consumer, idle |-> 0,
              deliveries |-> Min(p[id].deliveries + 1, MaxDeliveries)]
        ELSE p[id]]

\* XCLAIM ... FORCE: an id that is not pending gets a pending entry created
XClaimForce(p, consumer, minIdle, ids) ==
    [id \in DOMAIN p \cup ids |->
        IF id \notin DOMAIN p
        THEN [consumer |-> consumer, idle |-> 0, deliveries |-> 1]
        ELSE IF id \in Claimable(p, minIdle, ids)
        THEN [consumer |-> consumer, idle |-> 0,
              deliveries |-> Min(p[id].deliveries + 1, MaxDeliveries)]
        ELSE p[id]]

\* XCLAIM: the reassigned entries get the new owner, idle time 0 and one
\* more delivery (counted up to MaxDeliveries)
XClaim(p, consumer, minIdle, ids) ==
    [id \in DOMAIN p |->
        IF id \in Claimable(p, minIdle, ids)
        THEN [consumer |-> consumer, idle |-> 0,
              deliveries |-> Min(p[id].deliveries + 1, MaxDeliveries)]
        ELSE p[id]]

\* XACK key group ids...: the ids leave the pending entries
XAck(p, ids) == [id \in DOMAIN p \ Range(ids) |-> p[id]]

\* the passing of one unit of time, as the pending entries see it
Age(p) == [id \in DOMAIN p |-> [p[id] EXCEPT !.idle = Min(@ + 1, MaxIdle)]]

\* the Redis client takes commands until redisService.disconnect() (QUIT)
SourceOpen(c) == sourceDisconnects[c] = 0

\* the producer takes calls until outputService.disconnect() (close); the
\* disconnect of the local file service does nothing
SinkOpen(c) == sinkType[c] = "LOCAL_FILE" \/ sinkDisconnects[c] = 0

\* sendBatch on a closed producer: createBatch throws
ClosedResult == [NoResult EXCEPT !.raised = TRUE]

----------------------------------------------------------------------------
(* The environment *)

\* a producer appends a record (XADD)
XAdd(size) ==
    /\ Len(stream) < MaxRecords
    /\ stream' = Append(stream, size)
    /\ UNCHANGED <<groupExists, lastDeliveredId, pel, isRunning, pc, messages,
                   sendResult, ackIds, lastIter, sinkType, timer,
                   claimIds, eligible, claimedCount, claimOutcome, failures,
                   crashes>>
    /\ UNCHANGED stopVars

\* time passes: every pending entry has been idle one unit longer
Tick ==
    /\ Age(pel) # pel \/ \E c \in Consumers : graceLeft[c] > 0
    /\ pel' = Age(pel)
    /\ graceLeft' = [c \in Consumers |->
                        IF graceLeft[c] > 0 THEN graceLeft[c] - 1 ELSE 0]
    /\ UNCHANGED <<stopPc, sourceDisconnects, sinkDisconnects>>
    /\ UNCHANGED <<stream, groupExists, lastDeliveredId, isRunning, pc,
                   messages, sendResult, ackIds, lastIter, sinkType,
                   timer, claimIds, eligible, claimedCount, claimOutcome,
                   failures, crashes>>

\* the process of an instance dies: its loop, its timer and its memory are gone
Crash(c) ==
    /\ pc[c] \notin {"stopped", "crashed"}
    /\ crashes < MaxCrashes
    /\ crashes' = crashes + 1
    /\ pc' = [pc EXCEPT ![c] = "crashed"]
    /\ isRunning' = [isRunning EXCEPT ![c] = FALSE]
    /\ timer' = [timer EXCEPT ![c] = "off"]
    /\ messages' = [messages EXCEPT ![c] = <<>>]
    /\ sendResult' = [sendResult EXCEPT ![c] = NoResult]
    /\ ackIds' = [ackIds EXCEPT ![c] = <<>>]
    /\ lastIter' = [lastIter EXCEPT ![c] = "none"]
    /\ claimIds' = [claimIds EXCEPT ![c] = {}]
    /\ eligible' = [eligible EXCEPT ![c] = {}]
    /\ claimedCount' = [claimedCount EXCEPT ![c] = 0]
    /\ claimOutcome' = [claimOutcome EXCEPT ![c] = "ok"]
    /\ stopPc' = [stopPc EXCEPT ![c] = [k \in StopCalls |-> "idle"]]
    /\ graceLeft' = [graceLeft EXCEPT ![c] = 0]
    /\ sourceDisconnects' = [sourceDisconnects EXCEPT ![c] = 0]
    /\ sinkDisconnects' = [sinkDisconnects EXCEPT ![c] = 0]
    /\ UNCHANGED <<stream, groupExists, lastDeliveredId, pel, sinkType,
                   failures>>

----------------------------------------------------------------------------
(* StreamConnector *)

\* start() up to its await: isRunning is set and initializeGroup is called
Start(c) ==
    /\ pc[c] \in {"stopped", "crashed"}
    /\ isRunning' = [isRunning EXCEPT ![c] = TRUE]
    /\ pc' = [pc EXCEPT ![c] = "starting"]
    /\ UNCHANGED <<stream, groupExists, lastDeliveredId, pel, messages,
                   sendResult, ackIds, lastIter, sinkType, timer, claimIds,
                   eligible, claimedCount, claimOutcome, failures, crashes>>
    /\ UNCHANGED stopVars

\* start() from the answer reply of XGROUP CREATE on: initializeGroup
\* returns or throws; unless it threw, the recovery timer is set and the
\* processing loop launched; when it threw start() rejects there
StartWith(c, reply) ==
    /\ pc[c] = "starting"
    /\ LET r == InitializeGroup(reply) IN
        /\ groupExists' = r.group.exists
        /\ lastDeliveredId' = r.group.lastDeliveredId
        /\ pel' = r.group.pel
        /\ timer' = [timer EXCEPT ![c] = IF r.raised THEN @ ELSE "armed"]
        /\ pc' = [pc EXCEPT ![c] = IF r.raised THEN "start_failed" ELSE "loop"]
    /\ UNCHANGED <<stream, isRunning, messages, sendResult, ackIds, lastIter,
                   sinkType, claimIds, eligible, claimedCount, claimOutcome,
                   crashes>>
    /\ UNCHANGED stopVars

\* start(): XGROUP CREATE key group $ MKSTREAM creates the group or finds it
StartGroupReady(c) ==
    /\ StartWith(c, XGroupCreate(Group))
    /\ UNCHANGED failures

\* start(): XGROUP CREATE fails for a reason other than BUSYGROUP
StartFail(c) ==
    /\ failures < MaxFailures
    /\ failures' = failures + 1
    /\ StartWith(c, XGroupCreateFails(Group))

\* a loop that never looks at the flag: while (true)
LoopTopIgnoringFlag(c) ==
    /\ pc[c] = "loop"
    /\ pc' = [pc EXCEPT ![c] = "fetch"]
    /\ messages' = [messages EXCEPT ![c] = <<>>]
    /\ sendResult' = [sendResult EXCEPT ![c] = NoResult]
    /\ ackIds' = [ackIds EXCEPT ![c] = <<>>]
    /\ lastIter' = [lastIter EXCEPT ![c] = "none"]
    /\ UNCHANGED <<stream, groupExists, lastDeliveredId, pel, isRunning,
                   sinkType, timer, claimIds, eligible, claimedCount,
                   claimOutcome, failures,
                   crashes>>
    /\ UNCHANGED stopVars

\* processingLoop: while (this.isRunning), the top of an iteration; the
\* locals of the iteration before are gone
LoopTop(c) ==
    /\ pc[c] = "loop"
    /\ isRunning[c]
    /\ pc' = [pc EXCEPT ![c] = "fetch"]
    /\ messages' = [messages EXCEPT ![c] = <<>>]
    /\ sendResult' = [sendResult EXCEPT ![c] = NoResult]
    /\ ackIds' = [ackIds EXCEPT ![c] = <<>>]
    /\ lastIter' = [lastIter EXCEPT ![c] = "none"]
    /\ UNCHANGED <<stream, groupExists, lastDeliveredId, pel, isRunning,
                   sinkType, timer, claimIds, eligible, claimedCount,
                   claimOutcome, failures,
                   crashes>>
    /\ UNCHANGED stopVars

\* processingLoop: while (this.isRunning) finds the flag cleared; the loop
\* function returns
LoopExit(c) ==
    /\ pc[c] = "loop"
    /\ ~isRunning[c]
    /\ pc' = [pc EXCEPT ![c] = "exited"]
    /\ UNCHANGED <<stream, groupExists, lastDeliveredId, pel, isRunning,
                   messages, sendResult, ackIds, lastIter, sinkType, timer,
                   claimIds, eligible, claimedCount, claimOutcome, failures,
                   crashes>>
    /\ UNCHANGED stopVars

\* processingLoop: fetchMessages returns; an empty reply (the poll timed
\* out) starts the next iteration at once
Fetch(c) ==
    /\ pc[c] = "fetch"
    /\ SourceOpen(c)
    /\ LET ids == NewIds(batchSize) IN
        IF Len(ids) = 0
        THEN /\ pc' = [pc EXCEPT ![c] = "loop"]
             /\ lastIter' = [lastIter EXCEPT ![c] = "empty"]
             /\ UNCHANGED <<pel, lastDeliveredId, messages>>
        ELSE /\ pel' = Deliver(pel, ids, c)
             /\ lastDeliveredId' = lastDeliveredId + Len(ids)
             /\ messages' = [messages EXCEPT ![c] = ids]
             /\ pc' = [pc EXCEPT ![c] = "send"]
             /\ UNCHANGED lastIter
    /\ UNCHANGED <<stream, groupExists, isRunning, sendResult, ackIds,
                   sinkType, timer, claimIds, eligible, claimedCount,
                   claimOutcome, failures,
                   crashes>>
    /\ UNCHANGED stopVars

\* a loop without its outer catch: the error of fetchMessages ends it
FetchFailUncaught(c) ==
    /\ pc[c] = "fetch"
    /\ failures < MaxFailures \/ ~SourceOpen(c)
    /\ failures' = IF SourceOpen(c) THEN failures + 1 ELSE failures
    /\ pc' = [pc EXCEPT ![c] = "exited"]
    /\ lastIter' = [lastIter EXCEPT ![c] = "fetch_failed"]
    /\ UNCHANGED <<stream, groupExists, lastDeliveredId, pel, isRunning,
                   messages, sendResult, ackIds, sinkType, timer,
                   claimIds, eligible, claimedCount, claimOutcome, crashes>>
    /\ UNCHANGED stopVars

\* an outer catch that logs and does not wait: the next iteration starts
\* at once
FetchFailNoSleep(c) ==
    /\ pc[c] = "fetch"
    /\ failures < MaxFailures \/ ~SourceOpen(c)
    /\ failures' = IF SourceOpen(c) THEN failures + 1 ELSE failures
    /\ pc' = [pc EXCEPT ![c] = "loop"]
    /\ lastIter' = [lastIter EXCEPT ![c] = "fetch_failed"]
    /\ UNCHANGED <<stream, groupExists, lastDeliveredId, pel, isRunning,
                   messages, sendResult, ackIds, sinkType, timer,
                   claimIds, eligible, claimedCount, claimOutcome, crashes>>
    /\ UNCHANGED stopVars

\* processingLoop: fetchMessages throws (always, once the client is closed);
\* the outer catch sleeps retryDelayMs
FetchFail(c) ==
    /\ pc[c] = "fetch"
    /\ failures < MaxFailures \/ ~SourceOpen(c)
    /\ failures' = IF SourceOpen(c) THEN failures + 1 ELSE failures
    /\ pc' = [pc EXCEPT ![c] = "sleep"]
    /\ lastIter' = [lastIter EXCEPT ![c] = "fetch_failed"]
    /\ UNCHANGED <<stream, groupExists, lastDeliveredId, pel, isRunning,
                   messages, sendResult, ackIds, sinkType, timer,
                   claimIds, eligible, claimedCount, claimOutcome, crashes>>
    /\ UNCHANGED stopVars

\* the retry delay is over
Wake(c) ==
    /\ pc[c] = "sleep"
    /\ pc' = [pc EXCEPT ![c] = "loop"]
    /\ UNCHANGED <<stream, groupExists, lastDeliveredId, pel, isRunning,
                   messages, sendResult, ackIds, lastIter, sinkType,
                   timer, claimIds, eligible, claimedCount, claimOutcome,
                   failures, crashes>>
    /\ UNCHANGED stopVars

\* every fetched id, whatever sendBatch returned
AckAllFetched(msgs, sentCount) == msgs

\* the delivered ids, newest first
MessageIdsToAckNewestFirst(msgs, sentCount) ==
    [i \in 1..sentCount |-> msgs[sentCount + 1 - i]]

\* messages.slice(0, sentCount).map(msg => msg.id)
MessageIdsToAck(msgs, sentCount) == SubSeq(msgs, 1, sentCount)

\* a loop that goes on to acknowledge the iteration's records although
\* sendBatch failed
AckDespiteFailure(c, res) ==
    /\ ackIds' = [ackIds EXCEPT ![c] = messages[c]]
    /\ lastIter' = lastIter
    /\ pc' = [pc EXCEPT ![c] = "ack"]

\* the inner catch: sendBatch threw, or returned 0 and the loop threw
\* MessageProcessingError; nothing is acknowledged, the iteration is over
SendFailed(c, res) ==
    /\ ackIds' = ackIds
    /\ lastIter' = [lastIter EXCEPT ![c] =
                        IF res.raised THEN "send_raised" ELSE "send_zero"]
    /\ pc' = [pc EXCEPT ![c] = "loop"]

\* processingLoop: outputService.sendBatch(events) settles
Send(c) ==
    /\ pc[c] = "send"
    /\ \E res \in IF SinkOpen(c)
                   THEN SendBatchOutcomes(sinkType[c], messages[c],
                                          failures < MaxFailures)
                   ELSE {ClosedResult} :
        /\ failures' = IF SinkOpen(c) /\ Failed(sinkType[c], messages[c], res)
                       THEN failures + 1 ELSE failures
        /\ sendResult' = [sendResult EXCEPT ![c] = res]
        /\ IF res.raised \/ res.count = 0
           THEN SendFailed(c, res)
           ELSE /\ ackIds' = [ackIds EXCEPT ![c] =
                                 MessageIdsToAck(messages[c], res.count)]
                /\ pc' = [pc EXCEPT ![c] = "ack"]
                /\ lastIter' = lastIter
    /\ UNCHANGED <<stream, groupExists, lastDeliveredId, pel, isRunning,
                   messages, sinkType, timer, claimIds, eligible,
                   claimedCount, claimOutcome, crashes>>
    /\ UNCHANGED stopVars

\* processingLoop: ackMessages returns (it issues no XACK for an empty list)
Ack(c) ==
    /\ pc[c] = "ack"
    /\ SourceOpen(c)
    /\ pel' = IF Len(ackIds[c]) = 0 THEN pel ELSE XAck(pel, ackIds[c])
    /\ lastIter' = [lastIter EXCEPT ![c] = "acked"]
    /\ pc' = [pc EXCEPT ![c] = "loop"]
    /\ UNCHANGED <<stream, groupExists, lastDeliveredId, isRunning, messages,
                   sendResult, ackIds, sinkType, timer, claimIds,
                   eligible, claimedCount, claimOutcome, failures, crashes>>
    /\ UNCHANGED stopVars

\* processingLoop: ackMessages throws (always, once the client is closed);
\* the inner catch logs
AckFail(c) ==
    /\ pc[c] = "ack"
    /\ failures < MaxFailures \/ ~SourceOpen(c)
    /\ failures' = IF SourceOpen(c) THEN failures + 1 ELSE failures
    /\ lastIter' = [lastIter EXCEPT ![c] = "ack_failed"]
    /\ pc' = [pc EXCEPT ![c] = "loop"]
    /\ UNCHANGED <<stream, groupExists, lastDeliveredId, pel, isRunning,
                   messages, sendResult, ackIds, sinkType, timer,
                   claimIds, eligible, claimedCount, claimOutcome, crashes>>
    /\ UNCHANGED stopVars

----------------------------------------------------------------------------
(* The recovery timer: one claimPendingMessages call per firing *)

\* the interval fires and claimPendingMessages runs up to its XCLAIM:
\* XPENDING and the idle filter; it returns 0 when nothing is pending or
\* nothing is idle long enough
ClaimScan(c) ==
    /\ timer[c] = "armed"
    /\ SourceOpen(c)
    /\ LET ids == IdsToClaim(XPending(pel, XPendingCount),
                             pendingMessageMinIdleMs) IN
        /\ claimIds' = [claimIds EXCEPT ![c] = ids]
        /\ timer' = [timer EXCEPT ![c] = IF ids = {} THEN "armed" ELSE "claiming"]
        /\ eligible' = [eligible EXCEPT ![c] =
              IF ids = {} THEN {}
              ELSE {id \in DOMAIN pel : pel[id].idle >= pendingMessageMinIdleMs}]
        /\ claimedCount' = [claimedCount EXCEPT ![c] = 0]
        /\ claimOutcome' = [claimOutcome EXCEPT ![c] =
                                IF ids = {} THEN "ok" ELSE @]
    /\ UNCHANGED <<stream, groupExists, lastDeliveredId, pel, isRunning, pc,
                   messages, sendResult, ackIds, lastIter, sinkType,
                   failures, crashes>>
    /\ UNCHANGED stopVars

\* claimPendingMessages from its XCLAIM on; it returns claimed.length.  A
\* call in flight when stop() cleared the interval still runs to its end.
ClaimReassign(c) ==
    /\ timer[c] \in {"claiming", "draining"}
    /\ SourceOpen(c)
    /\ LET after == XClaim(pel, c, pendingMessageMinIdleMs, claimIds[c])
           claimed == {id \in DOMAIN pel : after[id] # pel[id]}
       IN /\ pel' = after
          /\ claimedCount' = [claimedCount EXCEPT ![c] = Cardinality(claimed)]
          /\ claimOutcome' = [claimOutcome EXCEPT ![c] = "ok"]
    /\ eligible' = [eligible EXCEPT ![c] = {}]
    /\ claimIds' = [claimIds EXCEPT ![c] = {}]
    /\ timer' = [timer EXCEPT ![c] = IF @ = "draining" THEN "off" ELSE "armed"]
    /\ UNCHANGED <<stream, groupExists, lastDeliveredId, isRunning, pc,
                   messages, sendResult, ackIds, lastIter, sinkType,
                   failures, crashes>>
    /\ UNCHANGED stopVars

\* claimPendingMessages without its catch: the error of XPENDING or XCLAIM
\* reaches the caller and no count is returned
ClaimFailRethrows(c) ==
    /\ timer[c] \in {"armed", "claiming", "draining"}
    /\ failures < MaxFailures \/ ~SourceOpen(c)
    /\ failures' = IF SourceOpen(c) THEN failures + 1 ELSE failures
    /\ claimIds' = [claimIds EXCEPT ![c] = {}]
    /\ timer' = [timer EXCEPT ![c] = IF @ = "draining" THEN "off" ELSE "armed"]
    /\ eligible' = [eligible EXCEPT ![c] = {}]
    /\ claimOutcome' = [claimOutcome EXCEPT ![c] = "threw"]
    /\ UNCHANGED <<stream, groupExists, lastDeliveredId, pel, isRunning, pc,
                   messages, sendResult, ackIds, lastIter, sinkType,
                   claimedCount, crashes>>
    /\ UNCHANGED stopVars

\* an interval callback without a catch around a throwing claim call: the
\* rejection is unhandled and ends the process
ClaimFailUnhandled(c) ==
    /\ timer[c] \in {"armed", "claiming", "draining"}
    /\ failures < MaxFailures \/ ~SourceOpen(c)
    /\ failures' = IF SourceOpen(c) THEN failures + 1 ELSE failures
    /\ claimIds' = [claimIds EXCEPT ![c] = {}]
    /\ timer' = [timer EXCEPT ![c] = "off"]
    /\ eligible' = [eligible EXCEPT ![c] = {}]
    /\ claimOutcome' = [claimOutcome EXCEPT ![c] = "caught"]
    /\ pc' = [pc EXCEPT ![c] = "crashed"]
    /\ isRunning' = [isRunning EXCEPT ![c] = FALSE]
    /\ UNCHANGED <<stream, groupExists, lastDeliveredId, pel,
                   messages, sendResult, ackIds, lastIter, sinkType,
                   claimedCount, crashes>>
    /\ UNCHANGED stopVars

\* the interval fires and XPENDING throws, or XCLAIM throws (always, once
\* the client is closed): claimPendingMessages logs and returns 0
ClaimFail(c) ==
    /\ timer[c] \in {"armed", "claiming", "draining"}
    /\ failures < MaxFailures \/ ~SourceOpen(c)
    /\ failures' = IF SourceOpen(c) THEN failures + 1 ELSE failures
    /\ claimIds' = [claimIds EXCEPT ![c] = {}]
    /\ timer' = [timer EXCEPT ![c] = IF @ = "draining" THEN "off" ELSE "armed"]
    /\ eligible' = [eligible EXCEPT ![c] = {}]
    /\ claimedCount' = [claimedCount EXCEPT ![c] = 0]
    /\ claimOutcome' = [claimOutcome EXCEPT ![c] = "caught"]
    /\ UNCHANGED <<stream, groupExists, lastDeliveredId, pel, isRunning, pc,
                   messages, sendResult, ackIds, lastIter, sinkType,
                   crashes>>
    /\ UNCHANGED stopVars

----------------------------------------------------------------------------
(* stop(): each call made on an instance goes from idle through the grace  *)
(* wait and the two disconnects to done, or returns at once (noop)         *)

\* a stop() without its guard
StopNeverNoop(c) == FALSE

\* if (!this.isRunning) return
StopIsNoop(c) == ~isRunning[c]

\* a stop() that leaves the flag set while it waits
StopLeavesRunning(run, c) == run

\* this.isRunning = false
StopClearsRunning(run, c) == [run EXCEPT ![c] = FALSE]

\* a stop() that does not wait
GraceSkipped(c) == TRUE

\* the timeout of pollTimeoutMs + shutdownGracePeriodMs has fired
GraceElapsed(c) == graceLeft[c] = 0

\* stop() up to its first await: the guard, the flag, clearInterval, and the
\* grace timeout set; call k is the k-th stop() call made on the instance
StopCall(c, k) ==
    /\ stopPc[c][k] = "idle"
    /\ \A j \in StopCalls : j < k => stopPc[c][j] # "idle"
    /\ pc[c] # "crashed"
    /\ IF StopIsNoop(c)
       THEN /\ stopPc' = [stopPc EXCEPT ![c][k] = "noop"]
            /\ UNCHANGED <<isRunning, timer, graceLeft>>
       ELSE /\ stopPc' = [stopPc EXCEPT ![c][k] = "grace"]
            /\ isRunning' = StopClearsRunning(isRunning, c)
            /\ timer' = [timer EXCEPT ![c] =
                            IF @ = "claiming" THEN "draining" ELSE "off"]
            /\ graceLeft' = [graceLeft EXCEPT ![c] =
                                pollTimeoutMs + shutdownGracePeriodMs]
    /\ UNCHANGED <<stream, groupExists, lastDeliveredId, pel, pc, messages,
                   sendResult, ackIds, lastIter, sinkType, claimIds, eligible,
                   claimedCount, claimOutcome, failures, crashes,
                   sourceDisconnects,
                   sinkDisconnects>>

\* stop(): the grace wait is over, redisService.disconnect() is called
StopDisconnectSource(c, k) ==
    /\ stopPc[c][k] = "grace"
    /\ GraceElapsed(c)
    /\ sourceDisconnects' = [sourceDisconnects EXCEPT ![c] = @ + 1]
    /\ stopPc' = [stopPc EXCEPT ![c][k] = "redis"]
    /\ UNCHANGED <<stream, groupExists, lastDeliveredId, pel, isRunning, pc,
                   messages, sendResult, ackIds, lastIter, sinkType, timer,
                   claimIds, eligible, claimedCount, claimOutcome, failures,
                   crashes,
                   graceLeft, sinkDisconnects>>

\* stop(): redisService.disconnect() has returned, outputService.disconnect()
\* is called
StopDisconnectSink(c, k) ==
    /\ stopPc[c][k] = "redis"
    /\ sinkDisconnects' = [sinkDisconnects EXCEPT ![c] = @ + 1]
    /\ stopPc' = [stopPc EXCEPT ![c][k] = "sink"]
    /\ UNCHANGED <<stream, groupExists, lastDeliveredId, pel, isRunning, pc,
                   messages, sendResult, ackIds, lastIter, sinkType, timer,
                   claimIds, eligible, claimedCount, claimOutcome, failures,
                   crashes,
                   graceLeft, sourceDisconnects>>

\* stop(): outputService.disconnect() has returned, stop() resolves
StopResolve(c, k) ==
    /\ stopPc[c][k] = "sink"
    /\ stopPc' = [stopPc EXCEPT ![c][k] = "done"]
    /\ UNCHANGED <<stream, groupExists, lastDeliveredId, pel, isRunning, pc,
                   messages, sendResult, ackIds, lastIter, sinkType, timer,
                   claimIds, eligible, claimedCount, claimOutcome, failures,
                   crashes,
                   graceLeft, sourceDisconnects, sinkDisconnects>>

----------------------------------------------------------------------------
(* The connector instances against one stream and one consumer group *)

\* no stop() call has been made, no collaborator disconnected
StopInit ==
    /\ stopPc = [c \in Consumers |-> [k \in StopCalls |-> "idle"]]
    /\ graceLeft = [c \in Consumers |-> 0]
    /\ sourceDisconnects = [c \in Consumers |-> 0]
    /\ sinkDisconnects = [c \in Consumers |-> 0]

Init ==
    /\ stream = <<>>
    /\ groupExists = FALSE
    /\ lastDeliveredId = 0
    /\ pel = << >>
    /\ isRunning = [c \in Consumers |-> FALSE]
    /\ pc = [c \in Consumers |-> "stopped"]
    /\ messages = [c \in Consumers |-> <<>>]
    /\ sendResult = [c \in Consumers |-> NoResult]
    /\ ackIds = [c \in Consumers |-> <<>>]
    /\ lastIter = [c \in Consumers |-> "none"]
    /\ \E type \in AdapterTypes : sinkType = [c \in Consumers |-> type]
    /\ timer = [c \in Consumers |-> "off"]
    /\ claimIds = [c \in Consumers |-> {}]
    /\ eligible = [c \in Consumers |-> {}]
    /\ claimedCount = [c \in Consumers |-> 0]
    /\ claimOutcome = [c \in Consumers |-> "ok"]
    /\ failures = 0
    /\ crashes = 0
    /\ StopInit

Next ==
    \/ \E size \in RecordSizes : XAdd(size)
    \/ Tick
    \/ \E c \in Consumers :
        \/ Start(c)
        \/ StartGroupReady(c)
        \/ LoopTop(c)
        \/ Fetch(c)
        \/ FetchFail(c)
        \/ Wake(c)
        \/ Send(c)
        \/ Ack(c)
        \/ AckFail(c)
        \/ ClaimScan(c)
        \/ ClaimReassign(c)
        \/ ClaimFail(c)
        \/ Crash(c)

Spec == Init /\ [][Next]_vars

FairSpec ==
    /\ Spec
    /\ WF_vars(Tick)
    /\ \A c \in Consumers :
        /\ WF_vars(StartGroupReady(c) \/ LoopTop(c) \/ Fetch(c) \/ Wake(c)
                    \/ Send(c) \/ Ack(c))
        /\ WF_vars(ClaimScan(c) \/ ClaimReassign(c))

----------------------------------------------------------------------------
(* The life of one connector instance, from start() to stop(): the process *)
(* of index.js, whose signal handlers may call stop() at any time and more *)
(* than once                                                               *)

LifeConsumers == {"c1"}

LifeNext ==
    \/ \E size \in RecordSizes : XAdd(size)
    \/ Tick
    \/ \E c \in LifeConsumers :
        \/ Start(c)
        \/ StartGroupReady(c)
        \/ StartFail(c)
        \/ LoopTop(c)
        \/ LoopExit(c)
        \/ Fetch(c)
        \/ FetchFail(c)
        \/ Wake(c)
        \/ Send(c)
        \/ Ack(c)
        \/ AckFail(c)
        \/ ClaimScan(c)
        \/ ClaimReassign(c)
        \/ ClaimFail(c)
        \/ \E k \in StopCalls :
            \/ StopCall(c, k)
            \/ StopDisconnectSource(c, k)
            \/ StopDisconnectSink(c, k)
            \/ StopResolve(c, k)

LifeSpec == Init /\ [][LifeNext]_vars

----------------------------------------------------------------------------
(* The hosting process of index.js: main() registers the SIGINT and SIGTERM *)
(* handlers, then calls connector.start(); every handler, and main() itself *)
(* when start() fails, runs shutdown(): await connector.stop(), then        *)
(* process.exit(0)                                                          *)

\* shutdown(signal) up to the first await inside connector.stop(); the
\* handlers are registered in the same turn in which start() is called, so
\* no shutdown runs before start()
Shutdown(c, k) ==
    /\ pc[c] \notin {"stopped", "exit0", "exit1"}
    /\ StopCall(c, k)

\* shutdown(signal): the stop() call it awaited has resolved and
\* process.exit(0) ends the process, with whatever is still pending in it
ProcessExit(c, k) ==
    /\ pc[c] \notin {"exit0", "exit1"}
    /\ stopPc[c][k] \in {"done", "noop"}
    /\ pc' = [pc EXCEPT ![c] = "exit0"]
    /\ timer' = [timer EXCEPT ![c] = "off"]
    /\ stopPc' = [stopPc EXCEPT ![c] =
                    [j \in StopCalls |->
                        IF stopPc[c][j] \in {"done", "noop", "rejected"}
                        THEN stopPc[c][j] ELSE "killed"]]
    /\ graceLeft' = [graceLeft EXCEPT ![c] = 0]
    /\ UNCHANGED <<stream, groupExists, lastDeliveredId, pel, isRunning,
                   messages, sendResult, ackIds, lastIter, sinkType,
                   claimIds, eligible, claimedCount, claimOutcome, failures,
                   crashes, sourceDisconnects, sinkDisconnects>>

\* stop(): redisService.disconnect() rejects (client.quit() fails); nothing
\* in stop() catches it, so stop() rejects there
StopDisconnectSourceFail(c, k) ==
    /\ stopPc[c][k] = "redis"
    /\ failures < MaxFailures
    /\ failures' = failures + 1
    /\ stopPc' = [stopPc EXCEPT ![c][k] = "rejected"]
    /\ UNCHANGED <<stream, groupExists, lastDeliveredId, pel, isRunning, pc,
                   messages, sendResult, ackIds, lastIter, sinkType, timer,
                   claimIds, eligible, claimedCount, claimOutcome, crashes,
                   graceLeft, sourceDisconnects, sinkDisconnects>>

\* shutdown(signal): the stop() call it awaited has rejected; the catch
\* logs and calls process.exit(1)
ProcessExitError(c, k) ==
    /\ pc[c] \notin {"exit0", "exit1"}
    /\ stopPc[c][k] = "rejected"
    /\ pc' = [pc EXCEPT ![c] = "exit1"]
    /\ timer' = [timer EXCEPT ![c] = "off"]
    /\ stopPc' = [stopPc EXCEPT ![c] =
                    [j \in StopCalls |->
                        IF stopPc[c][j] \in {"done", "noop", "rejected"}
                        THEN stopPc[c][j] ELSE "killed"]]
    /\ graceLeft' = [graceLeft EXCEPT ![c] = 0]
    /\ UNCHANGED <<stream, groupExists, lastDeliveredId, pel, isRunning,
                   messages, sendResult, ackIds, lastIter, sinkType,
                   claimIds, eligible, claimedCount, claimOutcome, failures,
                   crashes, sourceDisconnects, sinkDisconnects>>

MainNext ==
    \/ \E size \in RecordSizes : XAdd(size)
    \/ Tick
    \/ \E c \in LifeConsumers :
        \/ Start(c)
        \/ StartGroupReady(c)
        \/ StartFail(c)
        \/ LoopTop(c)
        \/ LoopExit(c)
        \/ Fetch(c)
        \/ FetchFail(c)
        \/ Wake(c)
        \/ Send(c)
        \/ Ack(c)
        \/ AckFail(c)
        \/ ClaimScan(c)
        \/ ClaimReassign(c)
        \/ ClaimFail(c)
        \/ \E k \in StopCalls :
            \/ Shutdown(c, k)
            \/ StopDisconnectSource(c, k)
            \/ StopDisconnectSink(c, k)
            \/ StopDisconnectSourceFail(c, k)
            \/ StopResolve(c, k)
            \/ ProcessExit(c, k)
            \/ ProcessExitError(c, k)

MainSpec == Init /\ [][MainNext]_vars

----------------------------------------------------------------------------
(* sendBatch on its own: an instance that has just fetched the records     *)
(* 1..n of a stream, of any sizes, and calls its output service            *)

SinkInit ==
    /\ \E n \in 0..MaxEvents :
        /\ stream \in [1..n -> EventSizes]
        /\ lastDeliveredId = n
        /\ messages = [c \in Consumers |->
                          IF c = "c1" THEN [i \in 1..n |-> i] ELSE <<>>]
        /\ pel = Deliver(<< >>, [i \in 1..n |-> i], "c1")
        /\ pc = [c \in Consumers |->
                    IF c = "c1" THEN (IF n = 0 THEN "fetch" ELSE "send")
                    ELSE "stopped"]
    /\ groupExists = TRUE
    /\ isRunning = [c \in Consumers |-> c = "c1"]
    /\ sendResult = [c \in Consumers |-> NoResult]
    /\ ackIds = [c \in Consumers |-> <<>>]
    /\ lastIter = [c \in Consumers |-> "none"]
    /\ \E type \in AdapterTypes : sinkType = [c \in Consumers |-> type]
    /\ timer = [c \in Consumers |-> IF c = "c1" THEN "armed" ELSE "off"]
    /\ claimIds = [c \in Consumers |-> {}]
    /\ eligible = [c \in Consumers |-> {}]
    /\ claimedCount = [c \in Consumers |-> 0]
    /\ claimOutcome = [c \in Consumers |-> "ok"]
    /\ failures = 0
    /\ crashes = 0
    /\ StopInit

SinkNext == \E c \in Consumers : Send(c)

SinkSpec == SinkInit /\ [][SinkNext]_vars

----------------------------------------------------------------------------
(* claimPendingMessages against a long pending list: an instance crashed   *)
(* with n records fetched and none acknowledged, the older ones idle for   *)
(* the threshold already; a second instance runs its recovery timer        *)

ScanInit ==
    /\ \E n \in (XPendingCount - 1)..(XPendingCount + ScanExtra) :
      \E old \in 0..n :
        /\ stream = [i \in 1..n |-> 1]
        /\ lastDeliveredId = n
        /\ pel = [id \in 1..n |->
                    [consumer |-> "c1", deliveries |-> 1,
                     idle |-> IF id <= old THEN pendingMessageMinIdleMs ELSE 0]]
    /\ groupExists = TRUE
    /\ isRunning = [c \in Consumers |-> c = "c2"]
    /\ pc = [c \in Consumers |-> IF c = "c2" THEN "fetch" ELSE "crashed"]
    /\ messages = [c \in Consumers |-> <<>>]
    /\ sendResult = [c \in Consumers |-> NoResult]
    /\ ackIds = [c \in Consumers |-> <<>>]
    /\ lastIter = [c \in Consumers |-> "none"]
    /\ \E type \in AdapterTypes : sinkType = [c \in Consumers |-> type]
    /\ timer = [c \in Consumers |-> IF c = "c2" THEN "armed" ELSE "off"]
    /\ claimIds = [c \in Consumers |-> {}]
    /\ eligible = [c \in Consumers |-> {}]
    /\ claimedCount = [c \in Consumers |-> 0]
    /\ claimOutcome = [c \in Consumers |-> "ok"]
    /\ failures = 0
    /\ crashes = MaxCrashes
    /\ StopInit

ScanNext ==
    \/ Tick
    \/ \E c \in Consumers :
        \/ ClaimScan(c)
        \/ ClaimReassign(c)

ScanSpec == ScanInit /\ [][ScanNext]_vars

----------------------------------------------------------------------------
(* Properties *)

Ids == 1..MaxRecords

Pending(id) == id \in DOMAIN pel

Alive(c) == pc[c] \notin {"stopped", "crashed"}

\* the sendBatch call of c's current iteration has returned or thrown
Settled(c) == pc[c] \in {"ack", "loop"} /\ messages[c] # <<>>

\* C1: no record is acknowledged before a sink confirms it: every id the
\* loop passes to ackMessages is the correlationId of an event that the
\* sendBatch call of the same iteration delivered.
C1_AckOnlyDelivered ==
    \A c \in Consumers :
        Settled(c) => Range(ackIds[c]) \subseteq Range(sendResult[c].delivered)

C6_SuccessInInputOrder ==
    \A c \in Consumers :
        (Settled(c) /\ ~sendResult[c].raised) =>
            sendResult[c].delivered = SubSeq(messages[c], 1, sendResult[c].count)

\* C8: claimPendingMessages with minIdleTimeMs = T never reassigns a
\* pending entry idle for less than T: in every step that reassigns an
\* entry (XCLAIM gives it idle time 0), the entry had been idle at least T.
C8_NoClaimBelowThreshold ==
    [][\A id \in DOMAIN pel \cap DOMAIN pel' :
          (pel'[id] # pel[id] /\ pel'[id].idle = 0) =>
              pel[id].idle >= pendingMessageMinIdleMs]_vars

C8_Witness ==
    \E id \in DOMAIN pel, c \in Consumers :
        /\ pel[id].consumer = c /\ pel[id].deliveries = 2 /\ pel[id].idle = 0
        /\ claimedCount[c] > 0
        /\ \E d \in Consumers \ {c} : pc[d] = "crashed"

\* C2: if sendBatch raises finitely many times and succeeds afterwards,
\* every record an instance has fetched is eventually acknowledged (it
\* leaves the pending entries), as long as the instance keeps running.
C2_FetchedEventuallyAcked ==
    \A c \in Consumers, id \in Ids :
        (pc[c] = "send" /\ id \in Range(messages[c]))
            ~> (~Pending(id) \/ pc[c] = "crashed")

\* C3: records fetched by an instance that crashed before acknowledging
\* them are eventually acknowledged by an instance that is running against
\* the same group.
C3_CrashedRecordsRecovered ==
    \A id \in Ids :
        (/\ Pending(id) /\ pc[pel[id].consumer] = "crashed"
         /\ \E d \in Consumers : Alive(d))
            ~> (~Pending(id) \/ \A d \in Consumers : ~Alive(d))

\* C7: after claimPendingMessages has reassigned a pending entry to
\* consumer c, a later fetchMessages call by c returns that record (unless
\* the entry has meanwhile been acknowledged or reassigned to another
\* consumer, or c is gone).
C7_ClaimedIsFetched ==
    \A c \in Consumers, id \in Ids :
        (Pending(id) /\ pel[id].consumer = c /\ pel[id].deliveries > 1
         /\ pc[c] = "fetch")
            ~> \/ pc[c] = "send" /\ id \in Range(messages[c])
               \/ ~Pending(id) \/ pel[id].consumer # c
               \/ ~Alive(c)

\* C9: a successful claimPendingMessages call with minIdleTimeMs = T
\* reassigns every entry of the pending list that was idle for at least T
\* when the call began, however long the list, and returns the number of
\* entries it reassigned.
C9_ClaimsEveryIdleEntry ==
    [][\A c \in Consumers :
          (timer[c] = "claiming" /\ timer'[c] = "armed"
           /\ failures' = failures /\ Alive(c) /\ pc'[c] = pc[c]) =>
              /\ \A id \in eligible[c] \cap DOMAIN pel' : pel'[id].consumer = c
              /\ claimedCount'[c] =
                    Cardinality({id \in DOMAIN pel : pel'[id] # pel[id]})]_vars

\* C10: for N events none of which is oversized, where a batch holds at
\* most K of them, EventHubsService.sendBatch transmits ceil(N/K) batches
\* and returns N when every transmission succeeds: every event is in a
\* transmitted batch.
C10_NoDropOnOverflow ==
    \A c \in Consumers :
        LET events == messages[c]
            N == Len(events)
            res == sendResult[c]
        IN  (/\ Settled(c) /\ sinkType[c] = "EVENT_HUBS" /\ ~res.raised
             /\ \A i \in 1..N : EventSize(events[i]) <= MaxBatchBytes) =>
                /\ res.count = N
                /\ Flatten(res.batches) = events
                /\ \A size \in 1..MaxBatchBytes :
                     (\A i \in 1..N : EventSize(events[i]) = size) =>
                        LET K == MaxBatchBytes \div size
                        IN  Len(res.batches) = (N + K - 1) \div K

C10_Witness ==
    \E c \in Consumers :
        /\ Settled(c) /\ sinkType[c] = "EVENT_HUBS" /\ ~sendResult[c].raised
        /\ Len(messages[c]) = 3
        /\ \A i \in 1..3 : EventSize(messages[c][i]) = 1
        /\ sendResult[c].batches = <<<<1, 2>>, <<3>>>>
        /\ sendResult[c].count = 3

\* an event that even an empty batch refuses
Oversized(event) == ~TryAdd(<<>>, event)

Fits(event) == ~Oversized(event)

\* C11: in EventHubsService.sendBatch an event that does not fit a fresh
\* empty batch is in no transmitted batch and is not counted in the returned
\* number, every other event of the input is in a transmitted batch, and
\* the oversized event does not make the call throw (the call throws only
\* when a transmission failed).
C11_OversizedIsolated ==
    \A c \in Consumers :
        LET events == messages[c]
            res == sendResult[c]
        IN  (/\ Settled(c) /\ sinkType[c] = "EVENT_HUBS"
             /\ \E i \in 1..Len(events) : Oversized(events[i])) =>
                /\ \A i \in 1..Len(events) :
                      Oversized(events[i]) =>
                          events[i] \notin Range(Flatten(res.batches))
                /\ failures = 0 => ~res.raised
                /\ ~res.raised =>
                      /\ res.count = Len(SelectSeq(events, Fits))
                      /\ Flatten(res.batches) = SelectSeq(events, Fits)

C11_Witness ==
    \E c \in Consumers :
        /\ Settled(c) /\ sinkType[c] = "EVENT_HUBS" /\ ~sendResult[c].raised
        /\ Len(messages[c]) = 3
        /\ Fits(1) /\ Oversized(2) /\ Fits(3)
        /\ sendResult[c].count = 2
        /\ Flatten(sendResult[c].batches) = <<1, 3>>

\* C12: sendBatch of either output service never throws for a partial
\* failure: when the call throws, no event of the call has been delivered
\* (no batch transmitted, no file written).
C12_RaisesOnlyWhenNothingDelivered ==
    \A c \in Consumers :
        (Settled(c) /\ sendResult[c].raised) => sendResult[c].delivered = <<>>

\* C13: EventHubsService.sendBatch transmits its queued batches strictly in
\* queue order; when the transmission of batch i fails no later batch is
\* transmitted (nor attempted) and the call throws; it throws in no other
\* case.
C13_InOrderAbortOnFailure ==
    \A c \in Consumers :
        LET queue == BuildBatches(messages[c]).batches
            res == sendResult[c]
            n == Len(res.batches)
        IN  (Settled(c) /\ sinkType[c] = "EVENT_HUBS") =>
                /\ n <= Len(queue)
                /\ res.batches = SubSeq(queue, 1, n)
                /\ res.raised => (n < Len(queue) /\ res.attempts = n + 1)
                /\ ~res.raised => (n = Len(queue) /\ res.attempts = n)

C13_Witness ==
    \E c \in Consumers :
        /\ Settled(c) /\ sinkType[c] = "EVENT_HUBS" /\ sendResult[c].raised
        /\ Len(BuildBatches(messages[c]).batches) = 3
        /\ Len(sendResult[c].batches) = 1
        /\ sendResult[c].attempts = 2

\* C14: LocalEventHubService.sendBatch attempts one write per input event
\* whether or not other writes of the call fail, never throws because of a
\* failed write, and returns exactly the number of writes that succeeded,
\* between 0 and the number of events.
C14_IndependentWrites ==
    \A c \in Consumers :
        LET events == messages[c]
            res == sendResult[c]
        IN  (Settled(c) /\ sinkType[c] = "LOCAL_FILE") =>
                /\ ~res.raised
                /\ res.attempts = Len(events)
                /\ res.count = Len(res.delivered)
                /\ 0 <= res.count /\ res.count <= Len(events)
                /\ Range(res.delivered) \subseteq Range(events)
                /\ \A i, j \in 1..Len(res.delivered) :
                      i < j => res.delivered[i] < res.delivered[j]

C14_Witness ==
    \E c \in Consumers :
        /\ Settled(c) /\ sinkType[c] = "LOCAL_FILE"
        /\ Len(messages[c]) = 3
        /\ sendResult[c].delivered = <<1, 3>>
        /\ sendResult[c].count = 2 /\ sendResult[c].attempts = 3

----------------------------------------------------------------------------
(* Properties of start() and stop() *)

\* the phases of a stop() call that went past its guard
FullPhases == {"grace", "redis", "sink", "done"}

\* start() has been called on the instance (in this process)
Started(c) == pc[c] \notin {"stopped", "crashed"}

\* the stop() call k on c begins in this step
StopBegins(c, k) == stopPc[c][k] = "idle" /\ stopPc'[c][k] # "idle"

\* C15: however two stop() calls made after start() interleave,
\* redisService.disconnect and outputService.disconnect are each called
\* exactly once: only one of the calls gets past the guard, neither
\* disconnect is ever called twice, a stop() on a started, running instance
\* does get past the guard, and once that call has resolved both
\* disconnects have been called once.
C15_DisconnectExactlyOnce ==
    \A c \in Consumers :
        /\ sourceDisconnects[c] <= 1 /\ sinkDisconnects[c] <= 1
        /\ Cardinality({k \in StopCalls : stopPc[c][k] \in FullPhases}) <= 1
        /\ (Started(c) /\ ~isRunning[c]) =>
              \E k \in StopCalls : stopPc[c][k] \in FullPhases
        /\ (\E k \in StopCalls : stopPc[c][k] = "done") =>
              (sourceDisconnects[c] = 1 /\ sinkDisconnects[c] = 1)

C15_Witness ==
    \E c \in Consumers :
        /\ pc[c] = "exited"
        /\ stopPc[c][1] = "done" /\ stopPc[c][2] = "noop"
        /\ sourceDisconnects[c] = 1 /\ sinkDisconnects[c] = 1

\* C16: stop() called on an instance that is not running (never started,
\* or already stopped) is a no-op: the call returns at once and the step
\* changes no state of the connector, touches no timer and calls no
\* disconnect.
C16_StopWhenNotRunningIsNoop ==
    [][\A c \in Consumers, k \in StopCalls :
          (StopBegins(c, k) /\ ~isRunning[c]) =>
              /\ stopPc'[c][k] = "noop"
              /\ UNCHANGED <<isRunning, pc, timer, graceLeft, claimIds,
                             sourceDisconnects, sinkDisconnects, messages,
                             sendResult, ackIds, pel, groupExists,
                             lastDeliveredId>>]_vars

C16_Witness ==
    \E c \in Consumers :
        /\ pc[c] = "stopped" /\ ~isRunning[c]
        /\ \A k \in StopCalls : stopPc[c][k] = "noop"
        /\ timer[c] = "off"
        /\ sourceDisconnects[c] = 0 /\ sinkDisconnects[c] = 0

\* C17: the steps of stop() on a running instance come in this order: the
\* flag is cleared and the recovery timer cancelled, then the grace wait of
\* pollTimeoutMs + shutdownGracePeriodMs passes, then redisService is
\* disconnected, then outputService, and only then stop() resolves; no
\* disconnect is called before the grace wait is over.
C17_StopOrder ==
    [][\A c \in Consumers, k \in StopCalls :
          /\ (StopBegins(c, k) /\ isRunning[c]) =>
                /\ stopPc'[c][k] = "grace"
                /\ ~isRunning'[c]
                /\ timer'[c] \notin {"armed", "claiming"}
                /\ graceLeft'[c] = pollTimeoutMs + shutdownGracePeriodMs
                /\ UNCHANGED <<sourceDisconnects, sinkDisconnects>>
          /\ sourceDisconnects'[c] # sourceDisconnects[c] =>
                /\ graceLeft[c] = 0
                /\ ~isRunning[c]
                /\ sinkDisconnects'[c] = 0
          /\ sinkDisconnects'[c] # sinkDisconnects[c] =>
                /\ graceLeft[c] = 0
                /\ sourceDisconnects[c] = 1
          /\ (stopPc[c][k] # "done" /\ stopPc'[c][k] = "done") =>
                (sourceDisconnects[c] = 1 /\ sinkDisconnects[c] = 1)]_vars

C17_Witness ==
    \E c \in Consumers, k \in StopCalls :
        /\ stopPc[c][k] = "done" /\ graceLeft[c] = 0
        /\ ~isRunning[c] /\ timer[c] = "off" /\ claimedCount[c] > 0
        /\ sourceDisconnects[c] = 1 /\ sinkDisconnects[c] = 1

\* C18: whatever fetchMessages, sendBatch and ackMessages calls fail, the
\* processing loop ends only by stop(): the loop function returns only in
\* a step that finds isRunning cleared by a stop() call that got past its
\* guard, and every step of an iteration, failed or not, leads on to the
\* rest of the iteration, to the retry delay or back to the top of the loop.
C18_LoopEndsOnlyByStop ==
    [][\A c \in Consumers :
          /\ (pc[c] # "exited" /\ pc'[c] = "exited") =>
                /\ ~isRunning[c]
                /\ \E k \in StopCalls : stopPc[c][k] \in FullPhases
                /\ failures' = failures
          /\ (pc[c] \in {"fetch", "send", "ack", "sleep"} /\ pc'[c] # pc[c]) =>
                pc'[c] \in {"send", "ack", "loop", "sleep"}]_vars

C18_Witness ==
    \E c \in Consumers :
        /\ pc[c] = "exited" /\ lastIter[c] = "fetch_failed"
        /\ failures = MaxFailures
        /\ \E k \in StopCalls : stopPc[c][k] \in FullPhases

\* C19: initializeGroup is idempotent: a start() that finds the group
\* existing does not fail in initializeGroup (it goes on to the timer and
\* the loop) and leaves the group, its last-delivered id and its pending
\* entries as they were.
C19_InitializeGroupIdempotent ==
    [][\A c \in Consumers :
          (/\ pc[c] = "starting" /\ pc'[c] \notin {"starting", "crashed"}
           /\ groupExists /\ failures' = failures) =>
              /\ pc'[c] = "loop" /\ timer'[c] = "armed"
              /\ groupExists'
              /\ lastDeliveredId' = lastDeliveredId
              /\ pel' = pel]_vars

C19_Witness ==
    \E c \in Consumers :
        /\ pc[c] = "loop" /\ lastIter[c] = "none" /\ crashes = 1
        /\ \A d \in Consumers \ {c} : pc[d] = "stopped"
        /\ \E id \in DOMAIN pel : pel[id].consumer = c
        /\ lastDeliveredId > 0

\* C20: when initializeGroup fails for a reason other than the group
\* existing, start() rejects and neither the recovery timer nor the
\* processing loop is started: the timer stays off, and from then on the
\* instance issues no fetch and no claimPendingMessages call.
C20_FailedStartStartsNothing ==
    [][\A c \in Consumers :
          /\ (pc[c] = "starting" /\ failures' # failures) =>
                (pc'[c] = "start_failed" /\ timer'[c] = "off")
          /\ pc[c] = "start_failed" =>
                /\ pc'[c] = "start_failed"
                /\ timer'[c] = "off"
                /\ messages'[c] = <<>> /\ claimIds'[c] = {}
                /\ UNCHANGED <<pel, lastDeliveredId>>]_vars

C20_Witness ==
    \E c \in Consumers :
        /\ pc[c] = "start_failed" /\ timer[c] = "off"
        /\ ~groupExists /\ Len(stream) = MaxRecords
        /\ \E k \in StopCalls : stopPc[c][k] = "done"

----------------------------------------------------------------------------
(* Properties of the recovery timer *)

\* in this step a claimPendingMessages call of c ends on an error of
\* XPENDING or XCLAIM (the first since a call that ended well)
ClaimFails(c) ==
    /\ timer[c] # "off"
    /\ claimOutcome[c] = "ok"
    /\ claimOutcome'[c] # "ok"

\* C21: claimPendingMessages never throws to its caller: when XPENDING or
\* XCLAIM fails the call returns 0.
C21_ClaimNeverThrows ==
    [][\A c \in Consumers :
          /\ claimOutcome'[c] \in {"ok", "caught"}
          /\ ClaimFails(c) =>
                (claimOutcome'[c] = "caught" /\ claimedCount'[c] = 0)]_vars

C21_Witness ==
    \E c \in Consumers :
        /\ claimOutcome[c] = "caught" /\ claimedCount[c] = 0
        /\ failures = 1 /\ isRunning[c]
        /\ \E id \in DOMAIN pel : pel[id].idle >= pendingMessageMinIdleMs

\* C22: a failing run of the recovery timer never reaches the processing
\* loop: after the failure the timer is still armed (it will call
\* claimPendingMessages again), and the loop is where it was, with its
\* state unchanged, and still running.
C22_ClaimFailureContained ==
    [][\A c \in Consumers :
          (ClaimFails(c) /\ timer[c] \in {"armed", "claiming"}) =>
              /\ timer'[c] = "armed"
              /\ pc'[c] = pc[c] /\ isRunning'[c] = isRunning[c]
              /\ UNCHANGED <<messages, sendResult, ackIds, lastIter, pel,
                             lastDeliveredId>>]_vars

C22_Witness ==
    \E c \in Consumers :
        /\ claimOutcome[c] = "caught" /\ timer[c] = "armed"
        /\ isRunning[c] /\ pc[c] = "ack"
        /\ failures = 1

----------------------------------------------------------------------------
(* Properties of delivery across start, instances and failures *)

\* C23: a record appended to the stream before start(), while the consumer
\* group does not exist yet, is fetched by the connector after start().
C23_EarlierRecordsFetched ==
    \A c \in Consumers, id \in Ids :
        (pc[c] = "starting" /\ ~groupExists /\ id <= Len(stream))
            ~> (id \in Range(messages[c]) \/ ~Alive(c))

\* C24: with two connectors of distinct consumer names on one group no
\* record is handed to the sinks of both: every batch fetchMessages returns
\* holds only records never delivered to any consumer before (the group's
\* cursor only advances), so it shares no record with the batch the other
\* connector last fetched; entries reassigned by claimPendingMessages are
\* in no batch.
C24_NoRecordToBothSinks ==
    [][/\ lastDeliveredId' >= lastDeliveredId
       /\ \A c \in Consumers :
            (pc[c] = "fetch" /\ pc'[c] = "send") =>
                /\ \A id \in Range(messages'[c]) :
                      id > lastDeliveredId /\ id <= lastDeliveredId'
                /\ \A d \in Consumers \ {c} :
                      Range(messages'[c]) \cap Range(messages[d]) = {}]_vars

C24_Witness ==
    /\ \A c \in Consumers : pc[c] = "send" /\ messages[c] # <<>>
    /\ Range(messages["c1"]) \cap Range(messages["c2"]) = {}

\* C25: when sendBatch raises, the loop sleeps retryDelayMs before its next
\* iteration.
C25_SleepAfterSendRaises ==
    [][\A c \in Consumers :
          (pc[c] = "send" /\ pc'[c] # "send" /\ sendResult'[c].raised)
              => pc'[c] = "sleep"]_vars

\* C26: when ackMessages fails after sendBatch delivered records, these
\* records are eventually acknowledged (while the connector lives).
C26_FailedAckRetried ==
    \A c \in Consumers, id \in Ids :
        (pc[c] = "loop" /\ lastIter[c] = "ack_failed"
         /\ id \in Range(ackIds[c]))
            ~> (~Pending(id) \/ ~Alive(c))

Increasing(ids) == \A i, j \in DOMAIN ids : i < j => ids[i] < ids[j]

\* C27: within one connector acknowledgment order follows fetch order:
\* each fetched batch is in ascending id order and lies after every id
\* delivered before (all of them at or below the group's cursor), and the
\* ids passed to ackMessages, before the next fetch, are ids of the batch
\* just fetched, in ascending order.
C27_AckOrderFollowsFetchOrder ==
    [][\A c \in Consumers :
          /\ Range(messages'[c]) \cup Range(ackIds'[c])
                \subseteq 1..lastDeliveredId'
          /\ (pc[c] = "fetch" /\ pc'[c] = "send") =>
                /\ Increasing(messages'[c])
                /\ \A new \in Range(messages'[c]) : new > lastDeliveredId
          /\ (pc[c] = "send" /\ pc'[c] = "ack") =>
                /\ Increasing(ackIds'[c])
                /\ Range(ackIds'[c]) \subseteq Range(messages[c])
          /\ (pc'[c] = "fetch" /\ pc[c] # "fetch") => ackIds'[c] = <<>>]_vars

C27_Witness ==
    \E c \in Consumers :
        /\ pc[c] = "ack" /\ Len(ackIds[c]) = 2
        /\ ackIds[c][1] < ackIds[c][2]

----------------------------------------------------------------------------
(* Properties of shutdown *)

\* phases of a stop() call that is past the guard and has not resolved
StopPending == {"grace", "redis", "sink"}

\* C28: however many times termination is requested, the process exits
\* only after a stop() call that disconnected both services has resolved,
\* and never while the grace wait or a disconnect of a stop() call is
\* still pending.
C28_ExitOnlyAfterFullStop ==
    [][\A c \in Consumers :
          (pc[c] # "exit0" /\ pc'[c] = "exit0") =>
              /\ \E k \in StopCalls : stopPc[c][k] = "done"
              /\ sourceDisconnects[c] = 1 /\ sinkDisconnects[c] = 1
              /\ \A k \in StopCalls : stopPc[c][k] \notin StopPending]_vars

\* a stop() call on c has got past its guard
StopInvoked(c) == \E k \in StopCalls : stopPc[c][k] \in FullPhases

\* the moves of the loop that finish what is in flight: a fetch that
\* returns or throws, the send and the ack of the records it returned, the
\* end of a retry sleep, and the end of the loop
FinishingMoves ==
    {<<"starting", "loop">>, <<"starting", "start_failed">>,
     <<"fetch", "send">>, <<"fetch", "loop">>, <<"fetch", "sleep">>,
     <<"send", "ack">>, <<"send", "loop">>, <<"ack", "loop">>,
     <<"sleep", "loop">>, <<"loop", "exited">>}

\* C29: cancellation is cooperative: once stop() has been invoked the loop
\* starts no new iteration and issues no new fetch; it only finishes what
\* is in flight (a pending fetch, then the send and the ack of its records)
\* and then ends at its next check of the flag.
C29_CooperativeCancellation ==
    [][\A c \in Consumers :
          StopInvoked(c) =>
              /\ pc'[c] # pc[c] => <<pc[c], pc'[c]>> \in FinishingMoves
              /\ pc[c] = "loop" /\ pc'[c] # "loop" => pc'[c] = "exited"
              /\ pc[c] \in {"send", "ack"} =>
                    messages'[c] = messages[c]]_vars

C29_Witness ==
    \E c \in Consumers :
        /\ StopInvoked(c) /\ ~isRunning[c]
        /\ pc[c] = "ack" /\ ackIds[c] # <<>>

\* C30: stop() cancels the recovery timer: after stop() has been invoked
\* on a connector that was started once, the timer is not armed and starts
\* no new claimPendingMessages call.
C30_StopCancelsTimer ==
    [][\A c \in Consumers :
          StopInvoked(c) =>
              /\ timer'[c] # "armed"
              /\ timer[c] # "claiming" => timer'[c] # "claiming"]_vars

----------------------------------------------------------------------------
(* Properties of the loop after a failed fetch *)

\* C31: when fetchMessages throws, the iteration sends nothing and
\* acknowledges nothing, the loop sleeps retryDelayMs, and after the sleep
\* it is at the top of the loop, where it starts a new fetch if it is
\* still running (and ends if it is not).
C31_FetchFailureSleepsThenRetries ==
    [][\A c \in Consumers :
          /\ (pc[c] = "fetch" /\ lastIter'[c] = "fetch_failed") =>
                /\ pc'[c] = "sleep"
                /\ messages'[c] = <<>> /\ ackIds'[c] = <<>>
                /\ sendResult'[c] = NoResult
                /\ pel' = pel
          /\ (pc[c] = "sleep" /\ pc'[c] # "sleep") =>
                /\ pc'[c] = "loop"
                /\ messages'[c] = <<>> /\ ackIds'[c] = <<>>
                /\ sendResult'[c] = NoResult
          /\ (pc[c] = "loop" /\ lastIter[c] = "fetch_failed"
              /\ pc'[c] # "loop") =>
                pc'[c] = IF isRunning[c] THEN "fetch" ELSE "exited"]_vars

C31_Witness ==
    \E c \in Consumers :
        /\ pc[c] = "loop" /\ lastIter[c] = "fetch_failed"
        /\ isRunning[c] /\ SourceOpen(c) /\ failures = 1

----------------------------------------------------------------------------
(* Properties of the batches EventHubsService builds and transmits *)

\* the locals of sendBatch after the first k events of the call
BuildAfter(events, k) == AddEvents(EmptyBuild, SubSeq(events, 1, k))

\* C32: EventHubsService.sendBatch terminates: each event is offered to a
\* batch (tryAdd) at most twice and makes the call open at most one new
\* batch (createBatch), and an event that an empty batch has refused is
\* not offered to any batch again in the same call.
C32_BoundedOffers ==
    \A c \in Consumers :
        LET events == messages[c]
            calls == BuildAfter(events, Len(events)).tryAdds
        IN  (Settled(c) /\ sinkType[c] = "EVENT_HUBS") =>
                /\ \A e \in Range(events) :
                      Cardinality({i \in DOMAIN calls : calls[i].event = e})
                          \in 1..2
                /\ \A k \in 1..Len(events) :
                      BuildAfter(events, k).createBatchCalls
                          <= BuildAfter(events, k - 1).createBatchCalls + 1
                /\ \A i, j \in DOMAIN calls :
                      (/\ i < j /\ calls[i].empty
                       /\ ~TryAdd(<<>>, calls[i].event))
                          => calls[j].event # calls[i].event

\* a is the beginning of b
IsPrefix(a, b) == Len(a) <= Len(b) /\ a = SubSeq(b, 1, Len(a))

\* C33 as stated: the batches one EventHubsService.sendBatch call
\* transmits, put end to end in the order of transmission, are the input
\* without its oversized events, and no transmitted batch is empty.
C33_TransmittedIsWholeInput ==
    \A c \in Consumers :
        LET events == messages[c]
            res == sendResult[c]
        IN  (Settled(c) /\ sinkType[c] = "EVENT_HUBS") =>
                /\ \A i \in DOMAIN res.batches : res.batches[i] # <<>>
                /\ Flatten(res.batches) = SelectSeq(events, Fits)

\* C33, amended: the batches one EventHubsService.sendBatch call transmits,
\* put end to end in the order of transmission, are the input without its
\* oversized events when every transmission succeeds, and the beginning of
\* it (the batches before the failed one) when a transmission fails; in
\* input order, each event once, and no transmitted batch is empty.
C33_TransmittedIsInputMinusOversized ==
    \A c \in Consumers :
        LET events == messages[c]
            res == sendResult[c]
            sent == Flatten(res.batches)
        IN  (Settled(c) /\ sinkType[c] = "EVENT_HUBS") =>
                /\ \A i \in DOMAIN res.batches : res.batches[i] # <<>>
                /\ \A i \in DOMAIN res.batches :
                      BatchBytes(res.batches[i]) <= MaxBatchBytes
                /\ IsPrefix(sent, SelectSeq(events, Fits))
                /\ ~res.raised => sent = SelectSeq(events, Fits)
                /\ \A i, j \in DOMAIN sent : i # j => sent[i] # sent[j]

C33_Witness ==
    \E c \in Consumers :
        /\ Settled(c) /\ sinkType[c] = "EVENT_HUBS" /\ ~sendResult[c].raised
        /\ Len(messages[c]) = 4
        /\ Oversized(1) /\ Fits(2) /\ Oversized(3) /\ Fits(4)
        /\ sendResult[c].batches = <<<<2>>, <<4>>>>

----------------------------------------------------------------------------
(* Properties of recovery against the loop *)

\* in this step the XCLAIM of a claimPendingMessages call of c returns
ClaimReturns(c) ==
    /\ timer[c] \in {"claiming", "draining"}
    /\ timer'[c] \notin {"claiming", "draining"}
    /\ claimOutcome'[c] = "ok"
    /\ pc'[c] = pc[c]

\* C34: claimPendingMessages re-owns pending entries and never creates
\* them: a record acknowledged between the XPENDING scan and the XCLAIM of
\* one call is not pending after the XCLAIM and is not in the count the
\* call returns.
C34_ClaimNeverRecreates ==
    [][\A c \in Consumers :
          ClaimReturns(c) =>
              /\ DOMAIN pel' = DOMAIN pel
              /\ \A id \in claimIds[c] \ DOMAIN pel : id \notin DOMAIN pel'
              /\ claimedCount'[c] =
                    Cardinality({id \in claimIds[c] \cap DOMAIN pel :
                                    pel'[id].consumer = c /\ pel'[id].idle = 0
                                    /\ pel[id].idle >= pendingMessageMinIdleMs})
              /\ claimedCount'[c] <= Cardinality(claimIds[c] \cap DOMAIN pel)]_vars

C34_Witness ==
    \E c \in Consumers, id \in Ids :
        /\ timer[c] = "claiming" /\ SourceOpen(c)
        /\ id \in claimIds[c] /\ ~Pending(id)
        /\ lastIter[c] = "acked" /\ id \in Range(ackIds[c])

\* C35: every record a sink delivered in an iteration whose sendBatch
\* returned normally is acknowledged in that iteration: once the
\* iteration's ackMessages has returned, none of them is pending.
C35_DeliveredIsAcked ==
    \A c \in Consumers :
        (/\ pc[c] = "loop" /\ lastIter[c] = "acked"
         /\ ~sendResult[c].raised) =>
            \A id \in Range(sendResult[c].delivered) : ~Pending(id)

----------------------------------------------------------------------------
(* Properties of stop() against the loop *)

\* C36: the loop never issues fetchMessages or ackMessages after stop()
\* has called redisService.disconnect, nor sendBatch after stop() has
\* called outputService.disconnect, however long a sendBatch in flight or
\* a retry sleep lasts.
C36_NoCallAfterDisconnect ==
    [][\A c \in Consumers :
          pc'[c] # pc[c] =>
              /\ pc'[c] \in {"fetch", "ack"} => sourceDisconnects'[c] = 0
              /\ pc'[c] = "send" => sinkDisconnects'[c] = 0]_vars

\* C37: stop() disconnects both services even when one disconnect fails:
\* when redisService.disconnect rejects during stop(),
\* outputService.disconnect is still called before the stop() call
\* settles.
C37_SinkDisconnectedDespiteFailure ==
    \A c \in Consumers, k \in StopCalls :
        stopPc[c][k] \in {"done", "rejected"} => sinkDisconnects[c] >= 1

\* C38: at most one recovery timer is active on a connector, and once a
\* stop() call has resolved no recovery timer set by an earlier start()
\* is armed or running.
C38_NoTimerAfterStopResolved ==
    \A c \in Consumers :
        (\E k \in StopCalls : stopPc[c][k] = "done") =>
            timer[c] \notin {"armed", "claiming"}

\* C39: a failed startup ends the process with a non-zero exit status:
\* when start() has rejected, the process does not exit with status 0.
C39_FailedStartExitsNonZero ==
    [][\A c \in Consumers :
          pc[c] = "start_failed" => pc'[c] # "exit0"]_vars

====
